---------------------------- MODULE Spec2Model ----------------------------
(***************************************************************************)
(* Model of entrypoint.py: one run of `main`, from the environment check   *)
(* through chunking, the per-chunk completion requests, the optional       *)
(* summarization request, comment formatting and the publish request.      *)
(*                                                                         *)
(* Strings are sequences of characters.  A literal of the source that no   *)
(* operation ever splits (an HTML tag, the four-space indentation of the   *)
(* f-string) is kept as one element of the sequence.  Python's None is the *)
(* one-element sequence None, which no string of the model equals.         *)
(***************************************************************************)
EXTENDS Integers, Sequences, FiniteSets, TLC

(* ------------------------------ bounds -------------------------------- *)

\* longest diff explored
MaxDiffLen == 3
\* largest --diff-chunk-size explored
MaxChunkSize == 3
\* the most negative --diff-chunk-size explored is -MaxNegChunkSize
MaxNegChunkSize == 1

(* ------------------------------ inputs -------------------------------- *)

\* characters a diff is made of
DiffChars == {"x", "y"}

\* texts the completion service can answer with
Reviews == { <<"A">>, <<"B">> }

None == <<"None">>

RECURSIVE StringsUpTo(_)
StringsUpTo(n) ==
    IF n = 0 THEN { <<>> }
    ELSE LET shorter == StringsUpTo(n - 1)
         IN  shorter \cup { Append(s, c) : s \in { t \in shorter : Len(t) = n - 1 }, c \in DiffChars }

Diffs == StringsUpTo(MaxDiffLen)

ChunkSizes == (0 - MaxNegChunkSize) .. MaxChunkSize

required_env_vars ==
    << "OPENAI_API_KEY", "GITHUB_TOKEN", "GITHUB_REPOSITORY",
       "GITHUB_PULL_REQUEST_NUMBER", "GIT_COMMIT_HASH" >>

EnvNames == { required_env_vars[k] : k \in 1..Len(required_env_vars) }

\* values os.getenv can return for a variable: None when it is unset
EnvValues(name) ==
    IF name = "GITHUB_PULL_REQUEST_NUMBER"
    THEN { None, <<>>, <<"7">>, <<"x">> }
    ELSE { None, <<"v">> }

Environments == { e \in [EnvNames -> { None, <<>>, <<"7">>, <<"x">>, <<"v">> }] :
                    \A name \in EnvNames : e[name] \in EnvValues(name) }

(* --------------------------- pure functions --------------------------- *)

Min(a, b) == IF a < b THEN a ELSE b

\* range(start, stop, step) for step # 0, as the sequence of its values
RECURSIVE PyRange(_, _, _)
PyRange(start, stop, step) ==
    IF (step > 0 /\ start < stop) \/ (step < 0 /\ start > stop)
    THEN <<start>> \o PyRange(start + step, stop, step)
    ELSE <<>>

\* s[lo:hi] for 0 <= lo, with hi clamped to len(s) as slicing does
PySlice(s, lo, hi) == SubSeq(s, lo + 1, Min(hi, Len(s)))

\* mutant: the slice loses its last character
chunk_string_short(input_string, chunk_size) ==
    LET r == PyRange(0, Len(input_string), chunk_size)
    IN  [k \in 1..Len(r) |-> PySlice(input_string, r[k], r[k] + chunk_size - 1)]

\* mutant: the slice runs one character into the next chunk
chunk_string_overlap(input_string, chunk_size) ==
    LET r == PyRange(0, Len(input_string), chunk_size)
    IN  [k \in 1..Len(r) |-> PySlice(input_string, r[k], r[k] + chunk_size + 1)]

\* mutant: the range stops one short, range(0, len(s) - 1, n)
chunk_string_stop_early(input_string, chunk_size) ==
    LET r == PyRange(0, Len(input_string) - 1, chunk_size)
    IN  [k \in 1..Len(r) |-> PySlice(input_string, r[k], r[k] + chunk_size)]

\* chunk_string for chunk_size # 0 (range raises ValueError for a step of 0)
chunk_string(input_string, chunk_size) ==
    LET r == PyRange(0, Len(input_string), chunk_size)
    IN  [k \in 1..Len(r) |-> PySlice(input_string, r[k], r[k] + chunk_size)]

\* range(0, len(input_string), chunk_size) raises ValueError
chunk_string_raises(input_string, chunk_size) == chunk_size = 0

\* sep.join(list)
RECURSIVE Join(_, _)
Join(sep, list) ==
    IF list = <<>> THEN <<>>
    ELSE IF Len(list) = 1 THEN list[1]
    ELSE list[1] \o sep \o Join(sep, Tail(list))

NL == <<"\n">>
Indent == <<"    ">>

\* mutant: the collapsible form is used for a single review too
format_review_comment_always_wrap(summarized, reviews) ==
    <<"<details>">> \o NL \o Indent \o <<"<summary>">> \o summarized \o <<"</summary>">>
        \o NL \o Indent \o Join(NL, reviews) \o NL \o Indent \o <<"</details>">>
        \o NL \o Indent

format_review_comment(summarized, reviews) ==
    IF Len(reviews) = 1 THEN summarized
    ELSE <<"<details>">> \o NL \o Indent \o <<"<summary>">> \o summarized \o <<"</summary>">>
            \o NL \o Indent \o Join(NL, reviews) \o NL \o Indent \o <<"</details>">>
            \o NL \o Indent

Digits == {"0", "1", "2", "3", "4", "5", "6", "7", "8", "9"}

\* int(v) raises: TypeError for None, ValueError for a string that is no number
PyIntRaises(v) == v = None \/ v = <<>> \/ \E k \in 1..Len(v) : v[k] \notin Digits

\* mutant: the last required variable is not checked
check_required_env_vars_skip_last(env) ==
    \E k \in 1..(Len(required_env_vars) - 1) : env[required_env_vars[k]] = None

\* check_required_env_vars raises ValueError
check_required_env_vars_raises(env) ==
    \E k \in 1..Len(required_env_vars) : env[required_env_vars[k]] = None

(* ------------------------------- state -------------------------------- *)

VARIABLES
    diff,               \* --diff
    diff_chunk_size,    \* --diff-chunk-size
    environ,            \* os.environ
    pc,                 \* position of main
    raised,             \* the exception that ended the run, "" when none
    chunked_diff_list,  \* get_review's chunks
    chunked_reviews,    \* get_review's collected reviews
    next_chunk,         \* number of chunks the for loop has taken
    summarized_review,
    review_comment,
    completions,        \* openai.ChatCompletion.create calls, in order
    posts               \* requests.post calls, in order

vars == << diff, diff_chunk_size, environ, pc, raised, chunked_diff_list,
           chunked_reviews, next_chunk, summarized_review, review_comment,
           completions, posts >>

Init ==
    /\ diff \in Diffs
    /\ diff_chunk_size \in ChunkSizes
    /\ environ \in Environments
    /\ pc = "check_env"
    /\ raised = ""
    /\ chunked_diff_list = <<>>
    /\ chunked_reviews = <<>>
    /\ next_chunk = 0
    /\ summarized_review = <<>>
    /\ review_comment = <<>>
    /\ completions = <<>>
    /\ posts = <<>>

Input == << diff, diff_chunk_size, environ >>

\* the last completion call, with its outcome filled in
Answered(status, content) ==
    [completions EXCEPT ![Len(completions)] =
        [@ EXCEPT !.status = status, !.response = content]]

(* ------------------------------ actions ------------------------------- *)

\* main: check_required_env_vars() raises
CheckEnvFails ==
    /\ pc = "check_env"
    /\ check_required_env_vars_raises(environ)
    /\ pc' = "failed"
    /\ raised' = "ValueError"
    /\ UNCHANGED << Input, chunked_diff_list, chunked_reviews, next_chunk,
                    summarized_review, review_comment, completions, posts >>

\* main: check_required_env_vars() returns, get_review is entered
CheckEnvPasses ==
    /\ pc = "check_env"
    /\ ~ check_required_env_vars_raises(environ)
    /\ pc' = "chunk"
    /\ UNCHANGED << Input, raised, chunked_diff_list, chunked_reviews, next_chunk,
                    summarized_review, review_comment, completions, posts >>

\* get_review: chunk_string raises (a step of 0)
ChunkFails ==
    /\ pc = "chunk"
    /\ chunk_string_raises(diff, diff_chunk_size)
    /\ pc' = "failed"
    /\ raised' = "ValueError"
    /\ UNCHANGED << Input, chunked_diff_list, chunked_reviews, next_chunk,
                    summarized_review, review_comment, completions, posts >>

\* get_review: chunk_string returns; chunked_reviews = []
Chunk ==
    /\ pc = "chunk"
    /\ ~ chunk_string_raises(diff, diff_chunk_size)
    /\ chunked_diff_list' = chunk_string(diff, diff_chunk_size)
    /\ chunked_reviews' = <<>>
    /\ next_chunk' = 0
    /\ pc' = "loop"
    /\ UNCHANGED << Input, raised, summarized_review, review_comment, completions, posts >>

\* get_review: the for loop takes the next chunk and issues its request
RequestChunkReview ==
    /\ pc = "loop"
    /\ next_chunk < Len(chunked_diff_list)
    /\ next_chunk' = next_chunk + 1
    /\ completions' = Append(completions,
                             [system |-> "review_prompt",
                              user |-> chunked_diff_list[next_chunk + 1],
                              status |-> "pending",
                              response |-> <<>>])
    /\ pc' = "await_review"
    /\ UNCHANGED << Input, raised, chunked_diff_list, chunked_reviews,
                    summarized_review, review_comment, posts >>

\* mutant: the review is put in front of the list
ChunkReviewReturns_prepend ==
    /\ pc = "await_review"
    /\ \E review_result \in Reviews :
          /\ completions' = Answered("ok", review_result)
          /\ chunked_reviews' = <<review_result>> \o chunked_reviews
    /\ pc' = "loop"
    /\ UNCHANGED << Input, raised, chunked_diff_list, next_chunk,
                    summarized_review, review_comment, posts >>

\* get_review: the chunk request returns and its text is appended
ChunkReviewReturns ==
    /\ pc = "await_review"
    /\ \E review_result \in Reviews :
          /\ completions' = Answered("ok", review_result)
          /\ chunked_reviews' = Append(chunked_reviews, review_result)
    /\ pc' = "loop"
    /\ UNCHANGED << Input, raised, chunked_diff_list, next_chunk,
                    summarized_review, review_comment, posts >>

\* mutant: the error is swallowed and the loop goes on with the next chunk
ChunkReviewFails_swallow ==
    /\ pc = "await_review"
    /\ completions' = Answered("error", <<>>)
    /\ pc' = "loop"
    /\ UNCHANGED << Input, raised, chunked_diff_list, chunked_reviews, next_chunk,
                    summarized_review, review_comment, posts >>

\* get_review: the chunk request raises; nothing catches it
ChunkReviewFails ==
    /\ pc = "await_review"
    /\ completions' = Answered("error", <<>>)
    /\ pc' = "failed"
    /\ raised' = "OpenAIError"
    /\ UNCHANGED << Input, chunked_diff_list, chunked_reviews, next_chunk,
                    summarized_review, review_comment, posts >>

\* get_review: the loop is over and len(chunked_reviews) == 1
ReturnSingleReview ==
    /\ pc = "loop"
    /\ next_chunk = Len(chunked_diff_list)
    /\ Len(chunked_reviews) = 1
    /\ summarized_review' = chunked_reviews[1]
    /\ pc' = "format"
    /\ UNCHANGED << Input, raised, chunked_diff_list, chunked_reviews, next_chunk,
                    review_comment, completions, posts >>

\* get_review: the loop is over and len(chunked_reviews) != 1
RequestSummary ==
    /\ pc = "loop"
    /\ next_chunk = Len(chunked_diff_list)
    /\ Len(chunked_reviews) # 1
    /\ completions' = Append(completions,
                             [system |-> "summarize_prompt",
                              user |-> Join(NL, chunked_reviews),
                              status |-> "pending",
                              response |-> <<>>])
    /\ pc' = "await_summary"
    /\ UNCHANGED << Input, raised, chunked_diff_list, chunked_reviews, next_chunk,
                    summarized_review, review_comment, posts >>

\* get_review: the summarization request returns
SummaryReturns ==
    /\ pc = "await_summary"
    /\ \E text \in Reviews :
          /\ completions' = Answered("ok", text)
          /\ summarized_review' = text
    /\ pc' = "format"
    /\ UNCHANGED << Input, raised, chunked_diff_list, chunked_reviews, next_chunk,
                    review_comment, posts >>

\* get_review: the summarization request raises
SummaryFails ==
    /\ pc = "await_summary"
    /\ completions' = Answered("error", <<>>)
    /\ pc' = "failed"
    /\ raised' = "OpenAIError"
    /\ UNCHANGED << Input, chunked_diff_list, chunked_reviews, next_chunk,
                    summarized_review, review_comment, posts >>

\* main: format_review_comment
Format ==
    /\ pc = "format"
    /\ review_comment' = format_review_comment(summarized_review, chunked_reviews)
    /\ pc' = "publish"
    /\ UNCHANGED << Input, raised, chunked_diff_list, chunked_reviews, next_chunk,
                    summarized_review, completions, posts >>

\* main: int(os.getenv("GITHUB_PULL_REQUEST_NUMBER")) raises
PullRequestNumberFails ==
    /\ pc = "publish"
    /\ PyIntRaises(environ["GITHUB_PULL_REQUEST_NUMBER"])
    /\ pc' = "failed"
    /\ raised' = "ValueError"
    /\ UNCHANGED << Input, chunked_diff_list, chunked_reviews, next_chunk,
                    summarized_review, review_comment, completions, posts >>

\* create_a_comment_to_pull_request: requests.post is sent
Publish ==
    /\ pc = "publish"
    /\ ~ PyIntRaises(environ["GITHUB_PULL_REQUEST_NUMBER"])
    /\ posts' = Append(posts, [body |-> review_comment,
                               commit_id |-> environ["GIT_COMMIT_HASH"],
                               event |-> "COMMENT",
                               status |-> "pending"])
    /\ pc' = "await_post"
    /\ UNCHANGED << Input, raised, chunked_diff_list, chunked_reviews, next_chunk,
                    summarized_review, review_comment, completions >>

\* requests.post returns a response, whatever its status code; main drops it
PostReturns ==
    /\ pc = "await_post"
    /\ \E code \in {"2xx", "4xx", "5xx"} :
          posts' = [posts EXCEPT ![Len(posts)] = [@ EXCEPT !.status = code]]
    /\ pc' = "done"
    /\ UNCHANGED << Input, raised, chunked_diff_list, chunked_reviews, next_chunk,
                    summarized_review, review_comment, completions >>

\* requests.post raises (the transport fails)
PostFails ==
    /\ pc = "await_post"
    /\ posts' = [posts EXCEPT ![Len(posts)] = [@ EXCEPT !.status = "transport_error"]]
    /\ pc' = "failed"
    /\ raised' = "RequestException"
    /\ UNCHANGED << Input, chunked_diff_list, chunked_reviews, next_chunk,
                    summarized_review, review_comment, completions >>

Next ==
    \/ CheckEnvFails
    \/ CheckEnvPasses
    \/ ChunkFails
    \/ Chunk
    \/ RequestChunkReview
    \/ ChunkReviewReturns
    \/ ChunkReviewFails
    \/ ReturnSingleReview
    \/ RequestSummary
    \/ SummaryReturns
    \/ SummaryFails
    \/ Format
    \/ PullRequestNumberFails
    \/ Publish
    \/ PostReturns
    \/ PostFails

Spec == Init /\ [][Next]_vars

(* ------------------------- derived quantities ------------------------- *)

Exited == pc \in {"done", "failed"}

\* the process's exit status once it has exited: an uncaught exception gives 1
ExitStatus == IF pc = "failed" THEN 1 ELSE 0

\* get_review has returned to main
Reviewed == pc \in {"format", "publish", "await_post", "done"}
              \/ (pc = "failed" /\ (posts # <<>> \/ review_comment # <<>>))


\* chunk_string has returned its list
Chunked == pc \notin {"check_env", "chunk"} /\ (pc = "failed" => completions # <<>>)

\* format_review_comment has returned
Formatted == pc \in {"publish", "await_post", "done"}
               \/ (pc = "failed" /\ review_comment # <<>>)

RECURSIVE Concat(_)
Concat(list) == IF list = <<>> THEN <<>> ELSE Head(list) \o Concat(Tail(list))

CeilDiv(a, b) == (a + b - 1) \div b

IsReviewRequest(c) == c.system = "review_prompt"
IsSummaryRequest(c) == c.system = "summarize_prompt"

ReviewRequests == SelectSeq(completions, IsReviewRequest)
SummaryRequests == SelectSeq(completions, IsSummaryRequest)

EnvMissing == \E name \in EnvNames : environ[name] = None

CompletionFailed == \E k \in 1..Len(completions) : completions[k].status = "error"

PostAnsweredWithError ==
    \E k \in 1..Len(posts) : posts[k].status \in {"4xx", "5xx"}

PostTransportFailed ==
    \E k \in 1..Len(posts) : posts[k].status = "transport_error"

\* piece occurs in b starting at position p
OccursAt(b, p, piece) ==
    /\ p + Len(piece) - 1 <= Len(b)
    /\ SubSeq(b, p, p + Len(piece) - 1) = piece

\* b opens with <details>, then carries <summary>S</summary>, then the reviews
\* joined by newlines, then </details>, in that order and without overlap
CollapsibleForm(b, summarized, reviews) ==
    LET summary == <<"<summary>">> \o summarized \o <<"</summary>">>
        body == Join(NL, reviews)
    IN  /\ OccursAt(b, 1, <<"<details>">>)
        /\ \E p2 \in 2..Len(b) :
              /\ OccursAt(b, p2, summary)
              /\ \E p3 \in (p2 + Len(summary))..Len(b) :
                    /\ OccursAt(b, p3, body)
                    /\ \E p4 \in (p3 + Len(body))..Len(b) :
                          OccursAt(b, p4, <<"</details>">>)

(* ------------------------------- claims ------------------------------- *)

\* C1: for every string s (the empty one too) and every positive n, the
\* elements of chunk_string(s, n) concatenated in list order give exactly s.
ChunkRoundTrip ==
    (Chunked /\ diff_chunk_size > 0) => Concat(chunked_diff_list) = diff

\* C1 witness: a diff has been cut into several chunks, the last one short
ChunkRoundTripWitness ==
    /\ Chunked
    /\ diff_chunk_size > 0
    /\ Len(chunked_diff_list) = 2
    /\ Len(diff) = 3
    /\ Concat(chunked_diff_list) = diff

\* C2: for every string s and positive n, every element of chunk_string(s, n)
\* has length at most n, every element but the last has length exactly n,
\* and no element is empty.
ChunkBound ==
    (Chunked /\ diff_chunk_size > 0) =>
        \A k \in 1..Len(chunked_diff_list) :
            /\ Len(chunked_diff_list[k]) <= diff_chunk_size
            /\ Len(chunked_diff_list[k]) >= 1
            /\ k < Len(chunked_diff_list) => Len(chunked_diff_list[k]) = diff_chunk_size

\* C2 witness: several chunks, the last strictly shorter than the chunk size
ChunkBoundWitness ==
    /\ Chunked
    /\ diff_chunk_size > 1
    /\ Len(chunked_diff_list) > 1
    /\ Len(chunked_diff_list[Len(chunked_diff_list)]) < diff_chunk_size

\* C3: for every non-empty s and positive n, chunk_string(s, n) has exactly
\* ceil(len(s)/n) elements; for the empty string it has none.
ChunkCount ==
    (Chunked /\ diff_chunk_size > 0) =>
        /\ diff # <<>> => Len(chunked_diff_list) = CeilDiv(Len(diff), diff_chunk_size)
        /\ diff = <<>> => Len(chunked_diff_list) = 0

\* C3 witness: a length the chunk size does not divide, rounded up
ChunkCountWitness ==
    /\ Chunked
    /\ diff_chunk_size > 0
    /\ Len(diff) % diff_chunk_size # 0
    /\ Len(chunked_diff_list) = (Len(diff) \div diff_chunk_size) + 1

\* C4: for every chunk size <= 0 and every diff, chunking fails with an error
\* before any chunk is produced and before any completion or publish request
\* is issued; it never returns a chunk list.
InvalidChunkSizeRejected ==
    diff_chunk_size <= 0 =>
        /\ pc \in {"check_env", "chunk", "failed"}
        /\ completions = <<>>
        /\ posts = <<>>

\* C5: in every run of get_review the number of summarization requests is 1
\* when there is more than one chunk and 0 otherwise (one chunk, and zero
\* chunks); with one chunk the summarized review is that chunk's review, with
\* more it is the answer to the request over the reviews joined by newlines.
SummarizeIffMoreThanOneChunk ==
    Reviewed =>
        /\ Len(SummaryRequests) = (IF Len(chunked_diff_list) > 1 THEN 1 ELSE 0)
        /\ Len(chunked_diff_list) = 1 => summarized_review = chunked_reviews[1]
        /\ Len(chunked_diff_list) > 1 =>
              /\ SummaryRequests[1].user = Join(NL, chunked_reviews)
              /\ SummaryRequests[1].response = summarized_review

\* C6: for a list of one review format_review_comment returns the summarized
\* review unchanged; for a longer list it returns the collapsible form:
\* <details>, then <summary>S</summary>, then the reviews in list order joined
\* by newlines, then </details>.  A published body is the collapsible form
\* exactly when a summarization request was issued.
CommentFormatting ==
    Formatted =>
        /\ Len(chunked_reviews) = 1 => review_comment = summarized_review
        /\ Len(chunked_reviews) > 1 =>
              CollapsibleForm(review_comment, summarized_review, chunked_reviews)
        /\ \A k \in 1..Len(posts) :
              CollapsibleForm(posts[k].body, summarized_review, chunked_reviews)
                  <=> Len(SummaryRequests) = 1

\* C6 witness: a comment over several different reviews has been published
CommentFormattingWitness ==
    /\ pc = "done"
    /\ Len(chunked_reviews) = 2
    /\ chunked_reviews[1] # chunked_reviews[2]
    /\ summarized_review # chunked_reviews[1]
    /\ posts[1].body = review_comment

\* C7: if any of the five required environment values is absent, the run
\* aborts with an error before any completion request and before any publish
\* request is issued.
MissingEnvAborts ==
    EnvMissing =>
        /\ pc \in {"check_env", "failed"}
        /\ pc = "failed" => raised = "ValueError"
        /\ completions = <<>>
        /\ posts = <<>>

\* C7 witness: only the commit hash is absent and the run has aborted
MissingEnvAbortsWitness ==
    /\ environ["GIT_COMMIT_HASH"] = None
    /\ \A name \in EnvNames \ {"GIT_COMMIT_HASH"} : environ[name] # None
    /\ pc = "failed"

\* C8: at most one publish attempt per run; it is issued only after every
\* chunk request and the summarization request (when issued) have returned
\* successfully; if any completion request fails nothing is published, so no
\* comment built from a strict subset of the chunk reviews is posted.
NoPartialPublishing ==
    /\ Len(posts) <= 1
    /\ posts # <<>> =>
          /\ Len(ReviewRequests) = Len(chunked_diff_list)
          /\ Len(chunked_reviews) = Len(chunked_diff_list)
          /\ \A k \in 1..Len(completions) : completions[k].status = "ok"
    /\ CompletionFailed => posts = <<>>

\* C8 witness: a comment over several chunks has been sent
NoPartialPublishingWitness ==
    /\ Len(posts) = 1
    /\ Len(chunked_diff_list) = 3
    /\ Len(SummaryRequests) = 1

\* C9: whenever the completion service or the comment API returns an error or
\* the transport fails, the run ends failed with a non-zero status; a run
\* whose publish request is answered with an error response does not finish
\* as a successful run.
UpstreamErrorsTerminate ==
    (Exited /\ (CompletionFailed \/ PostAnsweredWithError \/ PostTransportFailed)) =>
        /\ pc = "failed"
        /\ ExitStatus # 0

\* C10: get_review issues one completion request per chunk, in chunk order,
\* each only after the previous one has returned and never twice for a chunk;
\* the summarization request comes only after the last chunk request has
\* returned; the i-th collected review is the answer to the request for the
\* i-th chunk, and on return there are as many reviews as chunks.
SequentialOrderedRequests ==
    /\ Len(ReviewRequests) <= Len(chunked_diff_list)
    /\ \A k \in 1..Len(completions) :
          /\ k < Len(completions) => completions[k].status = "ok"
          /\ IsReviewRequest(completions[k]) =>
                /\ k <= Len(chunked_diff_list)
                /\ completions[k].user = chunked_diff_list[k]
          /\ IsSummaryRequest(completions[k]) => k = Len(chunked_diff_list) + 1
    /\ Len(chunked_reviews) <= Len(ReviewRequests)
    /\ \A i \in 1..Len(ReviewRequests) :
          IF ReviewRequests[i].status = "ok"
          THEN /\ i <= Len(chunked_reviews)
               /\ chunked_reviews[i] = ReviewRequests[i].response
          ELSE i > Len(chunked_reviews)
    /\ Reviewed => Len(chunked_reviews) = Len(chunked_diff_list)

\* C10 witness: get_review has returned two different reviews for two chunks
SequentialOrderedRequestsWitness ==
    /\ Reviewed
    /\ Len(chunked_diff_list) = 2
    /\ chunked_diff_list[1] # chunked_diff_list[2]
    /\ chunked_reviews = << <<"A">>, <<"B">> >>

=============================================================================
